---- MODULE Spec2Model ----
(***************************************************************************)
(* Model of git-duet's pairs.go: the authors file (pairsFile), its loader  *)
(* NewPairsFromFile and the lookup Pairs.ByInitials with the email         *)
(* strategy chain of Pairs.buildEmail.                                     *)
(*                                                                         *)
(* A Go string is a sequence of characters, each a one-character string.   *)
(* A pointer that may be nil (to Pairs, to Pair) and the error interface   *)
(* are sequences of length 0 (nil) or 1.  A Go map is a function whose     *)
(* domain is its key set.                                                  *)
(***************************************************************************)
EXTENDS Integers, Sequences, FiniteSets, TLC

VARIABLES
    contents,   \* text of the authors file on disk
    fileErr,    \* TRUE when the authors file cannot be opened or read
    lookupArg,  \* the emailLookup argument the caller passes to NewPairsFromFile
    a,          \* the *Pairs returned by NewPairsFromFile: <<>> or <<[file, emailLookup]>>
    loadErr,    \* the error returned by NewPairsFromFile: <<>> or <<error>>
    proc,       \* the external lookup command: initials -> [ok, stdout]
    last,       \* the latest ByInitials call: <<>> or <<[initials, out, consulted]>>
    first,      \* for each initials looked up so far, the outcome of its first lookup
    repeated    \* the initials looked up more than once

vars == <<contents, fileErr, lookupArg, a, loadErr, proc, last, first, repeated>>

----------------------------------------------------------------------------
(* package strings *)

\* unicode.IsSpace, on the Latin-1 white space written in this model
IsSpace(c) == c \in {" ", "\t", "\n", "\r", "\f"}

RECURSIVE TrimLeft(_)
TrimLeft(s) ==
    IF s # <<>> /\ IsSpace(Head(s)) THEN TrimLeft(Tail(s)) ELSE s

RECURSIVE TrimRight(_)
TrimRight(s) ==
    IF s # <<>> /\ IsSpace(s[Len(s)]) THEN TrimRight(SubSeq(s, 1, Len(s) - 1)) ELSE s

\* strings.TrimSpace
TrimSpace(s) == TrimRight(TrimLeft(s))

\* strings.Index for a one-character separator; 0 when absent
Index(s, sep) ==
    IF \E i \in 1..Len(s) : s[i] = sep
    THEN CHOOSE i \in 1..Len(s) : s[i] = sep /\ \A j \in 1..(i - 1) : s[j] # sep
    ELSE 0

\* strings.SplitN(s, sep, 2)
SplitN2(s, sep) ==
    LET i == Index(s, sep)
    IN  IF i = 0 THEN <<s>>
        ELSE <<SubSeq(s, 1, i - 1), SubSeq(s, i + 1, Len(s))>>

UpperCase ==
    <<"A", "B", "C", "D", "E", "F", "G", "H", "I", "J", "K", "L", "M",
      "N", "O", "P", "Q", "R", "S", "T", "U", "V", "W", "X", "Y", "Z", "É">>

LowerCase ==
    <<"a", "b", "c", "d", "e", "f", "g", "h", "i", "j", "k", "l", "m",
      "n", "o", "p", "q", "r", "s", "t", "u", "v", "w", "x", "y", "z", "é">>

\* unicode.ToLower / unicode.ToUpper
ToLowerRune(c) ==
    IF \E i \in 1..Len(UpperCase) : UpperCase[i] = c
    THEN LowerCase[CHOOSE i \in 1..Len(UpperCase) : UpperCase[i] = c]
    ELSE c

ToUpperRune(c) ==
    IF \E i \in 1..Len(LowerCase) : LowerCase[i] = c
    THEN UpperCase[CHOOSE i \in 1..Len(LowerCase) : LowerCase[i] = c]
    ELSE c

\* strings.ToLower / strings.ToUpper
ToLower(s) == [i \in 1..Len(s) |-> ToLowerRune(s[i])]

ToUpper(s) == [i \in 1..Len(s) |-> ToUpperRune(s[i])]

\* Code points of the characters of this model that are not ASCII; each is
\* encoded in UTF-8 on two bytes.
CodePoint == ("É" :> 201 @@ "é" :> 233 @@ "Ã" :> 195)

\* fmt's %c applied to s[0]: s[0] is the first BYTE of the string (for a
\* two-byte character the lead byte 0xC0 + cp/64), and %c prints the
\* character whose code point is that byte's value.
FormatByte0(s) ==
    IF Head(s) \notin DOMAIN CodePoint THEN Head(s)
    ELSE LET b == 192 + (CodePoint[Head(s)] \div 64)
         IN  CHOOSE c \in DOMAIN CodePoint : CodePoint[c] = b

----------------------------------------------------------------------------
(* package text/template, for the templates of this model.  A template is  *)
(* a sequence of elements: a literal character, or an action written as    *)
(* one element.                                                            *)

\* elements Parse rejects: an unclosed action, an undefined function
BadNodes == {"{{", "{{nope .Name}}"}

\* template.Parse: TRUE when the text parses
TemplateParses(text) == \A i \in 1..Len(text) : text[i] \notin BadNodes

\* Execute fails on a field the Pair does not have
NodeFails(node) == node = "{{.Nope}}"

NodeText(node, data) ==
    CASE node = "{{.Initials}}"         -> data.Initials
      [] node = "{{.Name}}"             -> data.Name
      [] node = "{{.Username}}"         -> data.Username
      [] node = "{{toLower .Name}}"     -> ToLower(data.Name)
      [] node = "{{toUpper .Initials}}" -> ToUpper(data.Initials)
      [] OTHER                          -> <<node>>

RECURSIVE TemplateText(_, _)
TemplateText(text, data) ==
    IF text = <<>> THEN <<>>
    ELSE NodeText(Head(text), data) \o TemplateText(Tail(text), data)

\* t.Execute(&out, data): [ok, out]
TemplateExecute(text, data) ==
    IF \E i \in 1..Len(text) : NodeFails(text[i])
    THEN [ok |-> FALSE, out |-> <<>>]
    ELSE [ok |-> TRUE, out |-> TemplateText(text, data)]

----------------------------------------------------------------------------
(* errors *)

\* the error without the initials
ErrUnknownInitialsBare(initials) ==
    [type |-> "fmt",
     msg  |-> <<"u", "n", "k", "n", "o", "w", "n", " ",
                "i", "n", "i", "t", "i", "a", "l", "s">>]

\* line 143: fmt.Errorf("unknown initials %s", initials)
ErrUnknownInitials(initials) ==
    [type |-> "fmt",
     msg  |-> <<"u", "n", "k", "n", "o", "w", "n", " ",
                "i", "n", "i", "t", "i", "a", "l", "s", " ">> \o initials]

ErrCommand == [type |-> "exec", msg |-> <<>>]

ErrTemplateParse == [type |-> "template.Parse", msg |-> <<>>]

ErrTemplateExecute == [type |-> "template.Execute", msg |-> <<>>]

----------------------------------------------------------------------------
(* Pairs.buildEmail *)

\* cmd.Run() of exec.Command(a.emailLookup, initials, name, username); the
\* name and username a program passes are determined by the initials, so
\* the command's behaviour is given per initials
RunLookup(p, initials, name, username) == p[initials]

\* a failed command taken for a successful one
RunFailedNever(run) == FALSE

\* line 89: err != nil
RunFailed(run) == ~run.ok

\* the command's output used as written
LookupOutputRaw(run) == run.stdout

\* line 93: strings.TrimSpace(out.String())
LookupOutput(run) == TrimSpace(run.stdout)

\* an override that is the empty string taken for a missing one
HasOverrideNonEmpty(pairs, initials) ==
    /\ initials \in DOMAIN pairs.file.EmailAddresses
    /\ pairs.file.EmailAddresses[initials] # <<>>

\* line 99: the ok of a.file.EmailAddresses[initials]
HasOverride(pairs, initials) == initials \in DOMAIN pairs.file.EmailAddresses

\* the last branch of buildEmail: the address derived from the name
NameEmail(name, domain) ==
    LET names == SplitN2(name, " ")
    IN  IF Len(names) = 2
        THEN IF ToLower(TrimSpace(names[1])) = <<>>
             THEN [email |-> <<>>, err |-> <<>>, panic |-> TRUE]
             ELSE [email |-> <<FormatByte0(ToLower(TrimSpace(names[1])))>> \o <<".">>
                               \o ToLower(TrimSpace(names[2])) \o <<"@">> \o domain,
                   err |-> <<>>, panic |-> FALSE]
        ELSE [email |-> ToLower(TrimSpace(names[1])) \o <<"@">> \o domain,
              err |-> <<>>, panic |-> FALSE]

\* lines 99-129: the strategies after the external lookup
ConfigEmail(pairs, initials, name, username) ==
    IF HasOverride(pairs, initials)
    THEN [email |-> pairs.file.EmailAddresses[initials], err |-> <<>>, panic |-> FALSE,
          consulted |-> <<"email_addresses">>]
    ELSE IF pairs.file.EmailTemplate # <<>>
    THEN IF ~TemplateParses(pairs.file.EmailTemplate)
         THEN [email |-> <<>>, err |-> <<ErrTemplateParse>>, panic |-> FALSE,
               consulted |-> <<"email_addresses", "email_template">>]
         ELSE LET r == TemplateExecute(pairs.file.EmailTemplate,
                           [Initials |-> initials, Name |-> name, Username |-> username])
              IN  IF ~r.ok
                  THEN [email |-> <<>>, err |-> <<ErrTemplateExecute>>, panic |-> FALSE,
                        consulted |-> <<"email_addresses", "email_template">>]
                  ELSE [email |-> r.out, err |-> <<>>, panic |-> FALSE,
                        consulted |-> <<"email_addresses", "email_template">>]
    ELSE IF username # <<>>
    THEN [email |-> TrimSpace(username) \o <<"@">> \o pairs.file.Email.Domain,
          err |-> <<>>, panic |-> FALSE,
          consulted |-> <<"email_addresses", "email_template", "username">>]
    ELSE NameEmail(name, pairs.file.Email.Domain)
           @@ [consulted |-> <<"email_addresses", "email_template", "username", "name">>]

buildEmail(pairs, p, initials, name, username) ==
    IF pairs.emailLookup # <<>>
    THEN LET run == RunLookup(p, initials, name, username)
         IN  IF RunFailed(run)
             THEN [email |-> <<>>, err |-> <<ErrCommand>>, panic |-> FALSE,
                   consulted |-> <<"lookup">>]
             ELSE IF LookupOutput(run) # <<>>
             THEN [email |-> LookupOutput(run), err |-> <<>>, panic |-> FALSE,
                   consulted |-> <<"lookup">>]
             ELSE LET r == ConfigEmail(pairs, initials, name, username)
                  IN  [r EXCEPT !.consulted = <<"lookup">> \o @]
    ELSE ConfigEmail(pairs, initials, name, username)

----------------------------------------------------------------------------
(* Pairs.ByInitials *)

\* the name part as written, not trimmed
ParseNameUntrimmed(pairString) == SplitN2(pairString, ";")[1]

\* lines 146-147: the name part of an authors entry
ParseName(pairString) == TrimSpace(SplitN2(pairString, ";")[1])

\* lines 148-151: the username part of an authors entry
ParseUsername(pairString) ==
    LET pairParts == SplitN2(pairString, ";")
    IN  IF Len(pairParts) = 2 THEN TrimSpace(pairParts[2]) ELSE <<>>

\* the value ByInitials returns (pair, err), whether it panicked, and the
\* configuration it consulted on the way
Lookup(pairs, p, initials) ==
    IF initials \notin DOMAIN pairs.file.Pairs
    THEN [pair |-> <<>>, err |-> <<ErrUnknownInitials(initials)>>, panic |-> FALSE,
          consulted |-> <<>>]
    ELSE LET pairString == pairs.file.Pairs[initials]
             name       == ParseName(pairString)
             username   == ParseUsername(pairString)
             r          == buildEmail(pairs, p, initials, name, username)
         IN  IF r.panic
             THEN [pair |-> <<>>, err |-> <<>>, panic |-> TRUE, consulted |-> r.consulted]
             ELSE IF r.err # <<>>
             THEN [pair |-> <<>>, err |-> r.err, panic |-> FALSE, consulted |-> r.consulted]
             ELSE [pair |-> <<[Name |-> name, Email |-> r.email,
                               Username |-> username, Initials |-> initials]>>,
                   err |-> <<>>, panic |-> FALSE, consulted |-> r.consulted]

----------------------------------------------------------------------------
(* NewPairsFromFile *)

PairsColon == <<"p", "a", "i", "r", "s", ":">>

AuthorsColon == <<"a", "u", "t", "h", "o", "r", "s", ":">>

\* the pattern without its ^ anchor
PairsKeyAnywhere(s, i) ==
    /\ i + Len(PairsColon) - 1 <= Len(s)
    /\ SubSeq(s, i, i + Len(PairsColon) - 1) = PairsColon

\* line 43: (?m)^pairs: matches at position i of s; in multi-line mode ^
\* is the start of the text or the position after a newline
PairsKeyAt(s, i) ==
    /\ i = 1 \/ s[i - 1] = "\n"
    /\ i + Len(PairsColon) - 1 <= Len(s)
    /\ SubSeq(s, i, i + Len(PairsColon) - 1) = PairsColon

\* the text from position i on, each match replaced, left to right
RECURSIVE ReplaceFrom(_, _)
ReplaceFrom(s, i) ==
    LET matches == {m \in i..Len(s) : PairsKeyAt(s, m)}
    IN  IF matches = {} THEN SubSeq(s, i, Len(s))
        ELSE LET m == CHOOSE x \in matches : \A y \in matches : x <= y
             IN  SubSeq(s, i, m - 1) \o AuthorsColon
                     \o ReplaceFrom(s, m + Len(PairsColon))

\* line 62: pairsKey.ReplaceAll(contents, []byte("authors:"))
ReplacePairsKey(s) == ReplaceFrom(s, 1)

(* yaml.Unmarshal into a pairsFile, for block mappings one level deep with  *)
(* plain or double-quoted scalars.                                          *)

RECURSIVE SplitLines(_)
SplitLines(s) ==
    IF s = <<>> THEN <<>>
    ELSE LET i == Index(s, "\n")
         IN  IF i = 0 THEN <<s>>
             ELSE <<SubSeq(s, 1, i - 1)>> \o SplitLines(SubSeq(s, i + 1, Len(s)))

Indented(line) == line # <<>> /\ line[1] = " "

\* the key of a "key: value" line
YamlKey(line) ==
    LET t == TrimLeft(line)
    IN  SubSeq(t, 1, Index(t, ":") - 1)

\* the text after the key's colon
YamlRest(line) ==
    LET t == TrimLeft(line)
    IN  TrimSpace(SubSeq(t, Index(t, ":") + 1, Len(t)))

Quoted(v) == Len(v) >= 2 /\ v[1] = "\"" /\ v[Len(v)] = "\""

\* a plain scalar cannot hold ": " nor end in ":"
ScalarOk(v) ==
    \/ Quoted(v)
    \/ /\ \A i \in 1..(Len(v) - 1) : ~(v[i] = ":" /\ v[i + 1] = " ")
       /\ (v = <<>> \/ v[Len(v)] # ":")

Scalar(v) == IF Quoted(v) THEN SubSeq(v, 2, Len(v) - 1) ELSE v

\* pairsFile{}: the zero value Unmarshal fills
ZeroPairsFile ==
    [Pairs          |-> <<>>,
     Email          |-> [Prefix |-> <<>>, Domain |-> <<>>],
     EmailAddresses |-> <<>>,
     EmailTemplate  |-> <<>>]

KeyAuthors == <<"a", "u", "t", "h", "o", "r", "s">>
KeyEmail == <<"e", "m", "a", "i", "l">>
KeyEmailAddresses ==
    <<"e", "m", "a", "i", "l", "_", "a", "d", "d", "r", "e", "s", "s", "e", "s">>
KeyEmailTemplate ==
    <<"e", "m", "a", "i", "l", "_", "t", "e", "m", "p", "l", "a", "t", "e">>
KeyPrefix == <<"p", "r", "e", "f", "i", "x">>
KeyDomain == <<"d", "o", "m", "a", "i", "n">>

\* m[k] = v on a Go map
MapSet(m, k, v) == [x \in DOMAIN m \cup {k} |-> IF x = k THEN v ELSE m[x]]

\* lines 31-41: the field a key of the document is decoded into; keys
\* without a field are ignored
SetEntry(file, section, key, value) ==
    IF section = KeyAuthors
    THEN [file EXCEPT !.Pairs = MapSet(@, key, value)]
    ELSE IF section = KeyEmailAddresses
    THEN [file EXCEPT !.EmailAddresses = MapSet(@, key, value)]
    ELSE IF section = KeyEmail /\ key = KeyPrefix
    THEN [file EXCEPT !.Email.Prefix = value]
    ELSE IF section = KeyEmail /\ key = KeyDomain
    THEN [file EXCEPT !.Email.Domain = value]
    ELSE file

SetField(file, key, value) ==
    IF key = KeyEmailTemplate THEN [file EXCEPT !.EmailTemplate = value] ELSE file

RECURSIVE Decode(_, _, _)
Decode(lines, section, file) ==
    IF lines = <<>> THEN [ok |-> TRUE, file |-> file]
    ELSE LET line == Head(lines)
         IN  IF Index(line, ":") = 0 \/ ~ScalarOk(YamlRest(line))
             THEN [ok |-> FALSE, file |-> file]
             ELSE IF Indented(line)
             THEN Decode(Tail(lines), section,
                         SetEntry(file, section, YamlKey(line), Scalar(YamlRest(line))))
             ELSE IF YamlRest(line) = <<>>
             THEN Decode(Tail(lines), YamlKey(line), file)
             ELSE Decode(Tail(lines), <<>>,
                         SetField(file, YamlKey(line), Scalar(YamlRest(line))))

\* line 64: yaml.Unmarshal(contents, &af)
Unmarshal(text) == Decode(SplitLines(text), <<>>, ZeroPairsFile)

ErrOpen == [type |-> "os.Open", msg |-> <<>>]

\* line 66: fmt.Errorf("could not parse %s: %+v", filename, err)
ErrParse == [type |-> "fmt", msg |-> <<"c", "o", "u", "l", "d", " ", "n", "o", "t", " ",
                                       "p", "a", "r", "s", "e">>]

\* lines 47-73: what NewPairsFromFile returns, (a, err)
LoadFile(text, unreadable, emailLookup) ==
    IF unreadable THEN [a |-> <<>>, err |-> <<ErrOpen>>]
    ELSE LET doc == Unmarshal(ReplacePairsKey(text))
         IN  IF ~doc.ok THEN [a |-> <<>>, err |-> <<ErrParse>>]
             ELSE [a |-> <<[file |-> doc.file, emailLookup |-> emailLookup]>>,
                   err |-> <<>>]

----------------------------------------------------------------------------
(* The configurations and commands the lookups are checked on *)

AB == <<"A", "B">>
CD == <<"C", "D">>
ZZ == <<"Z", "Z">>
PairsInitials == <<"p", "a", "i", "r", "s">>

\* the initials callers look up; ZZ is never an author
Lookups == {AB, CD, ZZ}

AliceBrown == <<"A", "l", "i", "c", "e", " ", "B", "r", "o", "w", "n">>
Cher == <<"C", "h", "e", "r">>
EveFoo == <<"E", "v", "e", " ", "F", "o", "o", ";", " ", "e", "f", "o", "o">>
GraceHopper == <<"G", "r", "a", "c", "e", " ", "H", "o", "p", "p", "e", "r">>
ElodieRoy == <<"É", "l", "o", "d", "i", "e", " ", "R", "o", "y">>
GraceNavyMil == <<"g", "r", "a", "c", "e", "@", "n", "a", "v", "y", ".", "m", "i", "l">>
ExampleCom == <<"e", "x", "a", "m", "p", "l", "e", ".", "c", "o", "m">>
LookupPath == <<"l", "o", "o", "k", "u", "p">>

\* longest authors entry of the record sweep
MaxRecLen == 4

RecAlphabet == {"B", "É", " ", ";"}

RECURSIVE SeqsUpTo(_, _)
SeqsUpTo(S, n) ==
    IF n = 0 THEN {<<>>}
    ELSE LET shorter == SeqsUpTo(S, n - 1)
         IN  shorter \cup {Append(s, c) : s \in {t \in shorter : Len(t) = n - 1}, c \in S}

RawRecords == SeqsUpTo(RecAlphabet, MaxRecLen)

AuthorMaps ==
    { (AB :> AliceBrown),
      (AB :> EveFoo @@ CD :> Cher),
      (AB :> GraceHopper @@ CD :> ElodieRoy) }

EmailAddressMaps ==
    { <<>>,
      (AB :> GraceNavyMil),
      (AB :> <<>>),
      (CD :> <<" ", "c", "@", "x">>) }

EmailTemplates ==
    { <<>>,
      <<"{{.Username}}">>,
      <<"{{toLower .Name}}", "@", "t">>,
      <<"{{toUpper .Initials}}", "{{.Username}}">>,
      <<"{{">>,
      <<"n", "{{.Nope}}">> }

ProcOutcomes ==
    { [ok |-> FALSE, stdout |-> <<"g", "@", "x">>],
      [ok |-> TRUE,  stdout |-> <<>>],
      [ok |-> TRUE,  stdout |-> <<" ", "\n">>],
      [ok |-> TRUE,  stdout |-> <<" ", "g", "@", "x", ".", "i", "o", "\n">>] }

Procs == [{AB, CD} -> ProcOutcomes]

\* a command that prints nothing, standing for "no command is run"
NoProc == [i \in {AB, CD, PairsInitials} |-> [ok |-> TRUE, stdout |-> <<>>]]

PairsFile(authors, domain, addresses, template) ==
    [Pairs          |-> authors,
     Email          |-> [Prefix |-> <<>>, Domain |-> domain],
     EmailAddresses |-> addresses,
     EmailTemplate  |-> template]

\* every authors entry, under the name fallback and under an override
RecordSweep ==
    { [file |-> PairsFile((AB :> r), ExampleCom, m, <<>>), emailLookup |-> <<>>] :
        r \in RawRecords, m \in {<<>>} }

\* every combination of the strategies' configuration
StrategySweep ==
    { [file |-> PairsFile(au, ExampleCom, m, t), emailLookup |-> l] :
        au \in AuthorMaps, m \in EmailAddressMaps, t \in EmailTemplates,
        l \in {<<>>, LookupPath} }

----------------------------------------------------------------------------
(* State machine: a loaded Pairs and the lookups made on it *)

Init ==
    /\ contents = <<>>
    /\ fileErr = FALSE
    /\ a \in {<<c>> : c \in RecordSweep \cup StrategySweep}
    /\ lookupArg = a[1].emailLookup
    /\ loadErr = <<>>
    /\ proc \in IF a[1].emailLookup = <<>> THEN {NoProc} ELSE Procs
    /\ last = <<>>
    /\ first = <<>>
    /\ repeated = {}

\* a lookup panicked, which ends the process
Panicked == last # <<>> /\ last[1].out.panic

\* what a call of ByInitials records
Record(initials) ==
    LET r == Lookup(a[1], proc, initials)
        out == [pair |-> r.pair, err |-> r.err, panic |-> r.panic]
    IN  /\ last' = <<[initials |-> initials, out |-> out, consulted |-> r.consulted]>>
        /\ first' = IF initials \in DOMAIN first THEN first
                    ELSE first @@ (initials :> out)
        /\ repeated' = IF initials \in DOMAIN first THEN repeated \cup {initials}
                       ELSE repeated

\* a lookup that stores the trimmed name back into the authors map
ByInitialsNormalising(initials) ==
    /\ a # <<>>
    /\ ~Panicked
    /\ Record(initials)
    /\ a' = IF initials \in DOMAIN a[1].file.Pairs
            THEN <<[a[1] EXCEPT !.file.Pairs[initials] = ParseName(@)]>>
            ELSE a
    /\ UNCHANGED <<contents, fileErr, lookupArg, loadErr, proc>>

\* a.ByInitials(initials): reads a.file and a.emailLookup, assigns neither
ByInitials(initials) ==
    /\ a # <<>>
    /\ ~Panicked
    /\ Record(initials)
    /\ UNCHANGED <<contents, fileErr, lookupArg, a, loadErr, proc>>

Next == \E initials \in Lookups : ByInitials(initials)

Spec == Init /\ [][Next]_vars

----------------------------------------------------------------------------
(* State machine: an authors file, its load, and the lookups on the result *)

\* the entries an authors section is written from: [key, text, value]
AuthorEntries ==
    { [key |-> AB, text |-> <<"A", "l", " ", "B", ";", " ", "a", "b">>,
                   value |-> <<"A", "l", " ", "B", ";", " ", "a", "b">>],
      [key |-> CD, text |-> <<"\"", "p", "a", "i", "r", "s", ":", " ", "x", "\"">>,
                   value |-> <<"p", "a", "i", "r", "s", ":", " ", "x">>],
      [key |-> PairsInitials, text |-> <<"P", " ", "Q">>, value |-> <<"P", " ", "Q">>] }

\* an entry yaml rejects: a plain scalar holding ": "
BadEntry == [key |-> CD, text |-> <<"p", "a", "i", "r", "s", ":", " ", "x">>]

OverrideEntry ==
    [key |-> AB, text |-> <<"\"", "p", "a", "i", "r", "s", ":", "@", "x", "\"">>,
                 value |-> <<"p", "a", "i", "r", "s", ":", "@", "x">>]

TemplateValue == <<"p", "a", "i", "r", "s", ":", "t">>

DomainValue == <<"x", ".", "i", "o">>

\* a document: the key its authors section is written under, the entries
\* of that section, whether the other sections are present, and whether the
\* authors section comes first
Docs ==
    [ key       : {PairsInitials, KeyAuthors},
      entries   : (SUBSET AuthorEntries) \ {{}},
      bad       : BOOLEAN,
      override  : BOOLEAN,
      template  : BOOLEAN,
      domain    : BOOLEAN,
      authorsFirst : BOOLEAN ]

EntryLine(e) == <<" ", " ">> \o e.key \o <<":", " ">> \o e.text \o <<"\n">>

RECURSIVE EntryLines(_)
EntryLines(es) ==
    IF es = {} THEN <<>>
    ELSE LET e == CHOOSE x \in es : TRUE
         IN  EntryLine(e) \o EntryLines(es \ {e})

\* the text of document d with its authors section under the key `key`
Render(d, key) ==
    LET authors == key \o <<":", "\n">> \o EntryLines(d.entries)
                       \o (IF d.bad THEN EntryLine(BadEntry) ELSE <<>>)
        rest    == (IF d.override
                    THEN KeyEmailAddresses \o <<":", "\n">> \o EntryLine(OverrideEntry)
                    ELSE <<>>)
                   \o (IF d.template
                       THEN KeyEmailTemplate \o <<":", " ", "\"">> \o TemplateValue
                                \o <<"\"", "\n">>
                       ELSE <<>>)
                   \o (IF d.domain
                       THEN KeyEmail \o <<":", "\n", " ", " ">> \o KeyDomain
                                \o <<":", " ">> \o DomainValue \o <<"\n">>
                       ELSE <<>>)
    IN  IF d.authorsFirst THEN authors \o rest ELSE rest \o authors

\* each document as written and as written with `authors:`
Texts == {[doc |-> d, text |-> Render(d, d.key), modern |-> Render(d, KeyAuthors)] : d \in Docs}

LoadProcs ==
    { NoProc,
      [i \in {AB, CD, PairsInitials} |->
          IF i = AB THEN [ok |-> TRUE, stdout |-> <<"g", "@", "x", "\n">>]
          ELSE [ok |-> TRUE, stdout |-> <<>>]] }

LoadLookups == {AB, CD, PairsInitials}

InitLoad ==
    /\ contents \in {t.text : t \in Texts}
    /\ fileErr \in BOOLEAN
    /\ lookupArg \in {<<>>, LookupPath}
    /\ a = <<>>
    /\ loadErr = <<>>
    /\ proc \in IF lookupArg = <<>> THEN {NoProc} ELSE LoadProcs
    /\ last = <<>>
    /\ first = <<>>
    /\ repeated = {}

\* a, err := NewPairsFromFile(filename, emailLookup), called once
NewPairsFromFile ==
    /\ a = <<>>
    /\ loadErr = <<>>
    /\ LET r == LoadFile(contents, fileErr, lookupArg)
       IN  /\ a' = r.a
           /\ loadErr' = r.err
    /\ UNCHANGED <<contents, fileErr, lookupArg, proc, last, first, repeated>>

NextLoad ==
    \/ NewPairsFromFile
    \/ \E initials \in LoadLookups : ByInitials(initials)

SpecLoad == InitLoad /\ [][NextLoad]_vars

----------------------------------------------------------------------------
(* Properties of the lookups *)

Config == a[1].file

\* the latest call looked up initials that are an author
LastKnown == last # <<>> /\ last[1].initials \in DOMAIN Config.Pairs

\* the name and username ByInitials returns for the initials of the latest call
LastName == ParseName(Config.Pairs[last[1].initials])

LastUsername == ParseUsername(Config.Pairs[last[1].initials])

\* t is s without its leading and trailing white space
IsTrimOf(t, s) ==
    /\ t = <<>> \/ (~IsSpace(t[1]) /\ ~IsSpace(t[Len(t)]))
    /\ \E i \in 1..(Len(s) + 1) :
          /\ i + Len(t) - 1 <= Len(s)
          /\ t = SubSeq(s, i, i + Len(t) - 1)
          /\ \A j \in 1..Len(s) : (j < i \/ j > i + Len(t) - 1) => IsSpace(s[j])

\* the external command of the latest call ran and printed an address
LookupAnswered ==
    /\ LastKnown
    /\ a[1].emailLookup # <<>>
    /\ proc[last[1].initials].ok
    /\ ~IsTrimOf(<<>>, proc[last[1].initials].stdout)

\* the external command of the latest call ran and failed
LookupFailed ==
    /\ LastKnown
    /\ a[1].emailLookup # <<>>
    /\ ~proc[last[1].initials].ok

\* the latest call got past the external command: none configured, or it
\* printed nothing but white space
PastLookup ==
    /\ LastKnown
    /\ \/ a[1].emailLookup = <<>>
       \/ /\ proc[last[1].initials].ok
          /\ IsTrimOf(<<>>, proc[last[1].initials].stdout)

UnknownInitialsMsg ==
    <<"u", "n", "k", "n", "o", "w", "n", " ", "i", "n", "i", "t", "i", "a", "l", "s", " ">>

IsUnknownInitials(err, initials) ==
    /\ err # <<>>
    /\ err[1].type = "fmt"
    /\ err[1].msg = UnknownInitialsMsg \o initials

\* C1: ByInitials fails with the unknown-initials error, carrying the
\* initials, exactly when the initials are not a key of the authors map, and
\* then returns no Pair; initials that are a key never fail that way.
UnknownInitialsIffAbsent ==
    last # <<>> =>
        /\ last[1].initials \notin DOMAIN Config.Pairs
              => /\ IsUnknownInitials(last[1].out.err, last[1].initials)
                 /\ last[1].out.pair = <<>>
        /\ last[1].initials \in DOMAIN Config.Pairs
              => \/ last[1].out.err = <<>>
                 \/ last[1].out.err[1].type # "fmt"

\* an absent key was refused after a present key had been resolved
UnknownInitialsSeen ==
    /\ last # <<>>
    /\ last[1].initials = ZZ
    /\ last[1].out.pair = <<>>
    /\ IsUnknownInitials(last[1].out.err, ZZ)
    /\ AB \in DOMAIN first
    /\ first[AB].pair # <<>>

RECURSIVE FirstNonEmpty(_)
FirstNonEmpty(results) ==
    IF results = <<>> THEN <<>>
    ELSE IF Head(results) # <<>> THEN Head(results)
    ELSE FirstNonEmpty(Tail(results))

\* what each strategy yields for the latest call, in priority order; a
\* strategy that does not apply yields the empty string
StrategyResults ==
    LET i   == last[1].initials
        tpl == Config.EmailTemplate
        run == TemplateExecute(tpl, [Initials |-> i, Name |-> LastName,
                                     Username |-> LastUsername])
    IN  << IF a[1].emailLookup # <<>> /\ proc[i].ok THEN TrimSpace(proc[i].stdout) ELSE <<>>,
           IF i \in DOMAIN Config.EmailAddresses THEN Config.EmailAddresses[i] ELSE <<>>,
           IF tpl # <<>> /\ TemplateParses(tpl) /\ run.ok THEN run.out ELSE <<>>,
           IF LastUsername # <<>> THEN LastUsername \o <<"@">> \o Config.Email.Domain ELSE <<>>,
           NameEmail(LastName, Config.Email.Domain).email >>

\* C2: the email of a successful lookup is the result of the first strategy,
\* in priority order, that yields a non-empty result; an empty result of any
\* strategy is passed over.
FirstNonEmptyStrategyWins ==
    (LastKnown /\ last[1].out.pair # <<>>)
        => last[1].out.pair[1].Email = FirstNonEmpty(StrategyResults)

\* C3: when the external command is configured and prints a non-empty
\* trimmed output, the email is that trimmed output and neither the
\* override map, the template, the username nor the name is consulted.
LookupShortCircuits ==
    LookupAnswered =>
        /\ last[1].out.pair # <<>>
        /\ last[1].out.err = <<>>
        /\ IsTrimOf(last[1].out.pair[1].Email, proc[last[1].initials].stdout)
        /\ last[1].consulted = <<"lookup">>

\* the command answered although the template does not parse and an
\* override exists
LookupShortCircuitSeen ==
    /\ LookupAnswered
    /\ last[1].out.pair # <<>>
    /\ Config.EmailTemplate = <<"{{">>
    /\ Config.EmailAddresses # <<>>

TemplateBroken ==
    \/ ~TemplateParses(Config.EmailTemplate)
    \/ \E k \in 1..Len(Config.EmailTemplate) : NodeFails(Config.EmailTemplate[k])

\* the latest call reached the template strategy
TemplateReached ==
    /\ PastLookup
    /\ last[1].initials \notin DOMAIN Config.EmailAddresses
    /\ Config.EmailTemplate # <<>>

\* C4: a failing external command, or a template that is reached and fails
\* to parse or render, makes ByInitials return an error and no Pair, and no
\* later strategy is attempted.
ExecutionErrorAborts ==
    /\ LookupFailed =>
           /\ last[1].out.pair = <<>>
           /\ last[1].out.err # <<>>
           /\ last[1].consulted = <<"lookup">>
    /\ (TemplateReached /\ TemplateBroken) =>
           /\ last[1].out.pair = <<>>
           /\ last[1].out.err # <<>>
           /\ \A k \in 1..Len(last[1].consulted) :
                 last[1].consulted[k] \notin {"username", "name"}

\* the command failed for initials that have an override
ExecutionErrorSeen ==
    /\ LookupFailed
    /\ last[1].out.pair = <<>>
    /\ last[1].initials \in DOMAIN Config.EmailAddresses

NameAddress(name, domain) ==
    LET i == Index(name, " ")
    IN  IF i = 0 THEN ToLower(TrimSpace(name)) \o <<"@">> \o domain
        ELSE <<ToLower(SubSeq(name, 1, i - 1))[1]>> \o <<".">>
                 \o ToLower(TrimSpace(SubSeq(name, i + 1, Len(name))))
                 \o <<"@">> \o domain

\* the latest call was resolved by the name-derived fallback
NameFallbackApplies ==
    /\ PastLookup
    /\ last[1].out.pair # <<>>
    /\ last[1].initials \notin DOMAIN Config.EmailAddresses
    /\ Config.EmailTemplate = <<>>
    /\ last[1].out.pair[1].Username = <<>>

\* C6: under the name-derived fallback the email is the first character of
\* the lowercased first token, ".", the lowercased trimmed remainder and
\* "@" + domain for a name of two tokens, and the lowercased trimmed name and
\* "@" + domain for a name of one token.
NameFallbackAddress ==
    NameFallbackApplies
        => last[1].out.pair[1].Email
               = NameAddress(last[1].out.pair[1].Name, Config.Email.Domain)

\* C7: two calls with the same initials, whatever is looked up in between,
\* give the same Pair or the same error.
SameInitialsSameOutcome ==
    last # <<>> => last[1].out = first[last[1].initials]

\* AB was looked up again after CD and ZZ and was resolved
RepeatedLookupSeen ==
    /\ last # <<>>
    /\ last[1].initials = AB
    /\ AB \in repeated
    /\ {CD, ZZ} \subseteq DOMAIN first
    /\ last[1].out.pair # <<>>
    /\ last[1].out.pair[1].Username # <<>>

\* C9: once loaded, the configuration (authors, email prefix and domain,
\* overrides, template, command path) is never changed by a lookup.
ConfigNeverChanges == [][a # <<>> => a' = a]_vars

\* lookups have succeeded, failed on unknown initials and failed in the
\* template, all on one configuration
MixedLookupsSeen ==
    /\ {AB, CD, ZZ} \subseteq repeated
    /\ \E i \in DOMAIN first : first[i].pair # <<>>
    /\ \E i \in DOMAIN first : first[i].err # <<>> /\ first[i].err[1].type = "template.Parse"
    /\ a[1].emailLookup # <<>>

\* C10: without external command and template, ByInitials returns a Pair
\* for every author, whatever the raw record; it never fails and never
\* indexes an empty first token.
TotalWithoutCommandAndTemplate ==
    (LastKnown /\ a[1].emailLookup = <<>> /\ Config.EmailTemplate = <<>>)
        => /\ last[1].out.pair # <<>>
           /\ last[1].out.err = <<>>
           /\ ~last[1].out.panic

\* a record that starts with white space and has two name tokens was resolved
BlankLedRecordSeen ==
    /\ LastKnown
    /\ a[1].emailLookup = <<>>
    /\ Config.EmailTemplate = <<>>
    /\ Config.Pairs[last[1].initials] = <<" ", "B", " ", "B">>
    /\ last[1].out.pair # <<>>
    /\ last[1].out.pair[1].Email = <<"b", ".", "b", "@">> \o ExampleCom

----------------------------------------------------------------------------
(* Properties of the load *)

\* the pairsFile document d describes
Meaning(d) ==
    [Pairs          |-> [k \in {e.key : e \in d.entries} |->
                            (CHOOSE e \in d.entries : e.key = k).value],
     Email          |-> [Prefix |-> <<>>,
                         Domain |-> IF d.domain THEN DomainValue ELSE <<>>],
     EmailAddresses |-> IF d.override THEN (OverrideEntry.key :> OverrideEntry.value)
                        ELSE <<>>,
     EmailTemplate  |-> IF d.template THEN TemplateValue ELSE <<>>]

\* C8: a file whose authors section is under the legacy key `pairs:` loads
\* as the same text with `authors:` in its place does, so every lookup
\* gives the same result; `pairs:` elsewhere in a line (in a name, an email,
\* the template, an indented key) is left as written.
LegacyKeyLoadsAsAuthors ==
    (~fileErr /\ (a # <<>> \/ loadErr # <<>>)) =>
        \A t \in Texts :
            t.text = contents =>
                LET modern == LoadFile(t.modern, FALSE, lookupArg)
                IN  /\ modern.a = a
                    /\ modern.err = loadErr
                    /\ a # <<>> => a[1].file = Meaning(t.doc)
                    /\ last # <<>> =>
                          LET r == Lookup(modern.a[1], proc, last[1].initials)
                          IN  /\ last[1].out.pair = r.pair
                              /\ last[1].out.err = r.err

\* a file with the legacy key after other sections was loaded, and the
\* author whose name holds `pairs:` was resolved
LegacyKeyLoadSeen ==
    /\ a # <<>>
    /\ \E t \in Texts :
          /\ t.text = contents
          /\ t.doc.key = PairsInitials
          /\ ~t.doc.authorsFirst
          /\ t.doc.override
          /\ t.doc.template
          /\ PairsInitials \in DOMAIN a[1].file.Pairs
    /\ last # <<>>
    /\ last[1].initials = CD
    /\ last[1].out.pair # <<>>
    /\ last[1].out.pair[1].Name = <<"p", "a", "i", "r", "s", ":", " ", "x">>
    /\ last[1].out.pair[1].Email = TemplateValue

====
